---- MODULE Spec2Model ----
(***************************************************************************)
(* Model of the beancount importers for SpareBank 1 and Bank Norwegian:    *)
(*   - the categorization done by DepositAccountImporter.finalize (both    *)
(*     banks) and by DepositCategorizer.categorize,                        *)
(*   - the PDF statement importer (end date, final balance, Balance entry),*)
(*   - the hand-written SpareBank 1 CSV extract loop.                      *)
(* Text is a sequence of one-character strings; an optional value is a     *)
(* sequence of length 0 (None) or 1.                                       *)
(***************************************************************************)
EXTENDS Integers, Sequences, FiniteSets, TLC

VARIABLES
    \* --- categorization ---
    importer,                       \* which object is under test: "sb1", "bn", "cat", or "-"
    narration_to_account_mappings,  \* self.narration_to_account_mappings
    from_account_mappings,          \* self.from_account_mappings
    to_account_mappings,            \* self.to_account_mappings
    patterns,                       \* DepositCategorizer.patterns
    txn,                            \* the transaction handed to / returned by the last call
    row,                            \* the csv row of the transaction
    prev_txn,                       \* the argument of the last call (history)
    op,                             \* the last call made: "none", "finalize", "categorize", "add"
    \* --- PDF statement importer ---
    pdf_self,                       \* the importer's account_name and currency
    pages,                          \* the document: the lines of text of each page
    existing_entries,               \* the existing_entries argument of extract
    end_date,                       \* local end_date of extract (optional date)
    balance,                        \* local balance of extract (optional text)
    entries,                        \* the list extract returns
    pdf_pc,                         \* "ready", "returned" (line 174) or "caught" (line 177)
    deduplicate_called,             \* extract called self.deduplicate (line 172)
    \* --- SpareBank 1 CSV extract (beancount_no_sparebank1/deposit.py) ---
    rows,                           \* the rows csv.reader yields after the header
    index,                          \* number of rows the loop has consumed
    csv_entries,                    \* local entries of extract
    csv_pc,                         \* "idle", "reading", "done" (returned) or "raised"
    \* --- _parse_amount on its own ---
    amount_value,                   \* the decimal value whose text is parsed
    amount_str,                     \* the amount_str argument of _parse_amount
    parsed,                         \* what _parse_amount returned (optional)
    \* --- deduplicate of the csvbase importers (src/beancount_no_*/deposit.py) ---
    dedup_window,                   \* self.dedup_window, in days
    dedup_max_date_delta,           \* self.dedup_max_date_delta, in days
    dedup_epsilon,                  \* self.dedup_epsilon, a decimal
    dedup_entries,                  \* the entries argument of deduplicate
    dedup_existing,                 \* the existing argument of deduplicate
    dedup_pc                        \* "idle", "ready" or "done"

cat_vars == <<importer, narration_to_account_mappings, from_account_mappings,
              to_account_mappings, patterns, txn, row, prev_txn, op>>

pdf_vars == <<pdf_self, pages, existing_entries, end_date, balance, entries, pdf_pc,
              deduplicate_called>>

csv_vars == <<rows, index, csv_entries, csv_pc>>

amt_vars == <<amount_value, amount_str, parsed>>

dup_vars == <<dedup_window, dedup_max_date_delta, dedup_epsilon, dedup_entries,
              dedup_existing, dedup_pc>>

other_vars == <<amt_vars, dup_vars>>

vars == <<cat_vars, pdf_vars, csv_vars, other_vars>>

----------------------------------------------------------------------------
(* Bounds *)
MaxRules == 2
MaxPostings == 3
MaxPages == 2
MaxTokens == 3
MaxRows == 2

----------------------------------------------------------------------------
(* Generic helpers *)

SeqsUpTo(S, n) == UNION {[1..k -> S] : k \in 0..n}

Last(s) == s[Len(s)]

\* python: pattern in text  (substring test; the empty pattern is in every text)
In(pattern, text) ==
    \E i \in 1..(Len(text) + 1) :
        /\ i + Len(pattern) - 1 <= Len(text)
        /\ SubSeq(text, i, i + Len(pattern) - 1) = pattern

\* re.search(pattern, text) for a compiled pattern made of literal characters
\* and the wildcard "." (any one character)
AtomMatches(atom, ch) == atom = "." \/ atom = ch

ReSearch(pattern, text) ==
    \E i \in 1..(Len(text) + 1) :
        /\ i + Len(pattern) - 1 <= Len(text)
        /\ \A k \in 1..Len(pattern) : AtomMatches(pattern[k], text[i + k - 1])

----------------------------------------------------------------------------
(* beancount data: Amount, Posting, Transaction *)

Amount(number, currency) == [number |-> number, currency |-> currency]

\* data.Posting(account, units, None, None, None, None); units is optional
Posting(account, units) == [account |-> account, units |-> units]

\* data.Transaction(meta, date, flag, payee=None, narration, tags, links, postings)
Transaction(meta, date, flag, narration, postings) ==
    [meta |-> meta, date |-> date, flag |-> flag, payee |-> <<>>,
     narration |-> narration, postings |-> postings]

\* txn._replace(postings=txn.postings + [balancing_posting])
ReplacePostings(t, postings) == [t EXCEPT !.postings = postings]

self_currency == "NOK"

\* bug variant: the sign inversion is forgotten
SameUnits(t) == <<Amount(t.postings[1].units[1].number, self_currency)>>

\* Amount(-txn.postings[0].units.number, self.currency)
OppositeUnits(t) == <<Amount(0 - t.postings[1].units[1].number, self_currency)>>

\* bug variant: postings=[balancing_posting], the original posting is lost
OnlyBalancingPosting(t, account) ==
    ReplacePostings(t, <<Posting(account, OppositeUnits(t))>>)

\* the three lines repeated at every match of finalize
WithBalancingPosting(t, account) ==
    ReplacePostings(t, t.postings \o <<Posting(account, OppositeUnits(t))>>)

\* bug variant: the loop does not return at the first match, the last match wins
LastMatch(mappings, field, i) ==
    LET M == {k \in i..Len(mappings) : In(mappings[k][1], field)}
    IN  IF M = {} THEN <<>>
        ELSE <<mappings[CHOOSE k \in M : \A j \in M : j <= k][2]>>

\* for pattern, account in mappings: if pattern in field: return account
\* <<>> when the loop ends without a match
FirstMatch(mappings, field, i) ==
    LET F[k \in 1..(Len(mappings) + 1)] ==
            IF k > Len(mappings) THEN <<>>
            ELSE IF In(mappings[k][1], field) THEN <<mappings[k][2]>>
            ELSE F[k + 1]
    IN F[i]

----------------------------------------------------------------------------
(* SpareBank 1: DepositAccountImporter.finalize *)

\* bug variant: a transaction no rule matches gets a default account, as in the
\* Bank Norwegian importer
Sb1FinalizeDefault(t, r) ==
    IF Len(t.postings) = 0 THEN t
    ELSE
    LET n == FirstMatch(narration_to_account_mappings, t.narration, 1)
        f == IF r.fra_konto # <<>>
             THEN FirstMatch(from_account_mappings, r.fra_konto, 1) ELSE <<>>
        o == IF r.til_konto # <<>>
             THEN FirstMatch(to_account_mappings, r.til_konto, 1) ELSE <<>>
    IN  IF n # <<>> THEN WithBalancingPosting(t, n[1])
        ELSE IF f # <<>> THEN WithBalancingPosting(t, f[1])
        ELSE IF o # <<>> THEN WithBalancingPosting(t, o[1])
        ELSE WithBalancingPosting(t, "Expenses:Uncategorized")

Sb1Finalize(t, r) ==
    IF Len(t.postings) = 0 THEN t
    ELSE
    LET n == FirstMatch(narration_to_account_mappings, t.narration, 1)
        f == IF r.fra_konto # <<>>
             THEN FirstMatch(from_account_mappings, r.fra_konto, 1) ELSE <<>>
        o == IF r.til_konto # <<>>
             THEN FirstMatch(to_account_mappings, r.til_konto, 1) ELSE <<>>
    IN  IF n # <<>> THEN WithBalancingPosting(t, n[1])
        ELSE IF f # <<>> THEN WithBalancingPosting(t, f[1])
        ELSE IF o # <<>> THEN WithBalancingPosting(t, o[1])
        ELSE t

----------------------------------------------------------------------------
(* Bank Norwegian: DepositAccountImporter.finalize *)

\* bug variant: the type of the row is looked at before the narration rules,
\* which then only decide for purchases and other types
BnFinalizeTypeFirst(narration_rules, from_rules, to_rules, t, r) ==
    IF Len(t.postings) = 0 THEN t
    ELSE
    LET transaction_type == r.type
        n == FirstMatch(narration_rules, t.narration, 1)
        f == FirstMatch(from_rules, t.narration, 1)
    IN  IF transaction_type = "Innbetaling"
        THEN IF f # <<>> THEN WithBalancingPosting(t, f[1])
             ELSE WithBalancingPosting(t, "Income:Unknown")
        ELSE IF transaction_type = "CreditVoucher"
             THEN WithBalancingPosting(t, "Expenses:Refunds")
        ELSE IF n # <<>> THEN WithBalancingPosting(t, n[1])
        ELSE WithBalancingPosting(t, "Expenses:Uncategorized")

\* bug variant: the to-account rules are consulted, as a last tier before the
\* defaults
BnFinalizeToTier(narration_rules, from_rules, to_rules, t, r) ==
    IF Len(t.postings) = 0 THEN t
    ELSE
    LET transaction_type == r.type
        n == FirstMatch(narration_rules, t.narration, 1)
        f == FirstMatch(from_rules, t.narration, 1)
        o == FirstMatch(to_rules, t.narration, 1)
    IN  IF n # <<>> THEN WithBalancingPosting(t, n[1])
        ELSE IF transaction_type = "Innbetaling"
             THEN IF f # <<>> THEN WithBalancingPosting(t, f[1])
                  ELSE WithBalancingPosting(t, "Income:Unknown")
        ELSE IF o # <<>> THEN WithBalancingPosting(t, o[1])
        ELSE IF transaction_type = "CreditVoucher"
             THEN WithBalancingPosting(t, "Expenses:Refunds")
        ELSE WithBalancingPosting(t, "Expenses:Uncategorized")

\* finalize of an importer constructed with the three rule lists; the body
\* never reads self.to_account_mappings
BnFinalizeWith(narration_rules, from_rules, to_rules, t, r) ==
    IF Len(t.postings) = 0 THEN t
    ELSE
    LET transaction_type == r.type
        n == FirstMatch(narration_rules, t.narration, 1)
        f == FirstMatch(from_rules, t.narration, 1)
    IN  IF n # <<>> THEN WithBalancingPosting(t, n[1])
        ELSE IF transaction_type = "Innbetaling"
             THEN IF f # <<>> THEN WithBalancingPosting(t, f[1])
                  ELSE WithBalancingPosting(t, "Income:Unknown")
        ELSE IF transaction_type = "CreditVoucher"
             THEN WithBalancingPosting(t, "Expenses:Refunds")
        ELSE WithBalancingPosting(t, "Expenses:Uncategorized")

BnFinalize(t, r) ==
    BnFinalizeWith(narration_to_account_mappings, from_account_mappings,
                   to_account_mappings, t, r)

----------------------------------------------------------------------------
(* DepositCategorizer.__init__, add and categorize *)

\* bug variant: the rule is put in front of the rules added before it
AddInFront(pats, pattern, account) == <<<<pattern, account>>>> \o pats

\* self.patterns.append((re.compile(pattern), account)); the compiled pattern
\* is kept as the text it was compiled from, which is what re.search acts on
Add(pats, pattern, account) == Append(pats, <<pattern, account>>)

\* self.patterns = []; for pattern, account in rules: self.add(pattern, account)
DepositCategorizerInit(rules) ==
    LET F[k \in 0..Len(rules)] ==
            IF k = 0 THEN <<>> ELSE Add(F[k - 1], rules[k][1], rules[k][2])
    IN F[Len(rules)]

\* for pattern, account in self.patterns: if re.search(pattern, description)
FirstSearch(pats, description, i) ==
    LET F[k \in 1..(Len(pats) + 1)] ==
            IF k > Len(pats) THEN <<>>
            ELSE IF ReSearch(pats[k][1], description) THEN <<pats[k][2]>>
            ELSE F[k + 1]
    IN F[i]

Categorize(pats, transaction, row_dict) ==
    LET description == row_dict.Beskrivelse
        m == FirstSearch(pats, description, 1)
        new_postings == transaction.postings \o <<Posting(m[1], <<>>)>>
    IN  IF m # <<>>
        THEN [meta |-> transaction.meta, date |-> transaction.date,
              flag |-> transaction.flag, payee |-> transaction.payee,
              narration |-> transaction.narration, postings |-> new_postings]
        ELSE transaction

----------------------------------------------------------------------------
(* Inputs of the categorization specification *)

Patterns == {<<>>, <<"a">>}
Narrations == {<<>>, <<"a">>, <<"b">>, <<"b", "a">>}
KontoTexts == {<<>>, <<"a">>, <<"b">>}
Types == {"Innbetaling", "CreditVoucher", "Kjop", ""}
Numbers == {0 - 7, 3}
Currencies == {"NOK", "USD"}
Regexes == {<<>>, <<"a">>, <<".", "b">>}

\* the k-th rule of a tier maps to its own account, so that the posting's
\* account tells which rule was applied
AccountNames ==
    [narration |-> <<"Expenses:N1", "Expenses:N2", "Expenses:N3", "Expenses:N4">>,
     from      |-> <<"Assets:F1", "Assets:F2", "Assets:F3", "Assets:F4">>,
     to        |-> <<"Assets:T1", "Assets:T2", "Assets:T3", "Assets:T4">>,
     rule      |-> <<"Expenses:R1", "Expenses:R2", "Expenses:R3", "Expenses:R4">>]

Rules(tier, pats) == [k \in 1..Len(pats) |-> <<pats[k], AccountNames[tier][k]>>]

RuleLists(tier) == {Rules(tier, p) : p \in SeqsUpTo(Patterns, MaxRules)}

account_name == "Assets:Bank"

InitialPostings(currencies) ==
    {<<>>} \cup {<<Posting(account_name, <<Amount(n, c)>>)>> :
                    n \in Numbers, c \in currencies}

NoRow == [fra_konto |-> <<>>, til_konto |-> <<>>, type |-> "", Beskrivelse |-> <<>>]

\* the transaction csvbase hands to finalize, or extract to categorize
InputTransaction(narration, postings) ==
    Transaction([filename |-> <<"f">>, lineno |-> <<1>>],
                [year |-> 2024, month |-> 1, day |-> 5], "*", narration, postings)

InitSb1 ==
    /\ importer = "sb1"
    /\ narration_to_account_mappings \in RuleLists("narration")
    /\ from_account_mappings \in RuleLists("from")
    /\ to_account_mappings \in RuleLists("to")
    /\ patterns = <<>>
    /\ \E nar \in Narrations, ps \in InitialPostings({self_currency}) :
          txn = InputTransaction(nar, ps)
    /\ \E fra \in KontoTexts, til \in KontoTexts :
          row = [NoRow EXCEPT !.fra_konto = fra, !.til_konto = til]

InitBn ==
    /\ importer = "bn"
    /\ narration_to_account_mappings \in RuleLists("narration")
    /\ from_account_mappings \in RuleLists("from")
    /\ to_account_mappings \in RuleLists("to")
    /\ patterns = <<>>
    /\ \E nar \in Narrations, ps \in InitialPostings(Currencies) :
          txn = InputTransaction(nar, ps)
    /\ \E ty \in Types : row = [NoRow EXCEPT !.type = ty]

InitCategorizer ==
    /\ importer = "cat"
    /\ narration_to_account_mappings = <<>>
    /\ from_account_mappings = <<>>
    /\ to_account_mappings = <<>>
    /\ \E p \in SeqsUpTo(Regexes, MaxRules) :
          patterns = DepositCategorizerInit(Rules("rule", p))
    /\ \E nar \in Narrations, ps \in InitialPostings({self_currency}) :
          /\ txn = InputTransaction(nar, ps)
          /\ row = [NoRow EXCEPT !.Beskrivelse = nar]

PdfIdle ==
    /\ pdf_self = [account_name |-> account_name, currency |-> self_currency]
    /\ pages = <<>>
    /\ existing_entries = <<>>
    /\ end_date = <<>>
    /\ balance = <<>>
    /\ entries = <<>>
    /\ pdf_pc = "idle"
    /\ deduplicate_called = FALSE

CsvIdle ==
    /\ rows = <<>>
    /\ index = 0
    /\ csv_entries = <<>>
    /\ csv_pc = "idle"

AmtIdle ==
    /\ amount_value = [ok |-> TRUE, num |-> 0, exp |-> 0]
    /\ amount_str = <<>>
    /\ parsed = <<>>

DupIdle ==
    /\ dedup_window = 3
    /\ dedup_max_date_delta = 2
    /\ dedup_epsilon = [ok |-> TRUE, num |-> 5, exp |-> 2]
    /\ dedup_entries = <<>>
    /\ dedup_existing = <<>>
    /\ dedup_pc = "idle"

OtherIdle == AmtIdle /\ DupIdle

InitCat ==
    /\ InitSb1 \/ InitBn \/ InitCategorizer
    /\ prev_txn = txn
    /\ op = "none"
    /\ PdfIdle
    /\ CsvIdle
    /\ OtherIdle

----------------------------------------------------------------------------
(* Actions of the categorization specification: one call each *)

CallSb1Finalize ==
    /\ importer = "sb1"
    /\ Len(txn.postings) < MaxPostings
    /\ prev_txn' = txn
    /\ txn' = Sb1Finalize(txn, row)
    /\ op' = "finalize"
    /\ UNCHANGED <<importer, narration_to_account_mappings, from_account_mappings,
                   to_account_mappings, patterns, row>>
    /\ UNCHANGED <<pdf_vars, csv_vars, other_vars>>

CallBnFinalize ==
    /\ importer = "bn"
    /\ Len(txn.postings) < MaxPostings
    /\ prev_txn' = txn
    /\ txn' = BnFinalize(txn, row)
    /\ op' = "finalize"
    /\ UNCHANGED <<importer, narration_to_account_mappings, from_account_mappings,
                   to_account_mappings, patterns, row>>
    /\ UNCHANGED <<pdf_vars, csv_vars, other_vars>>

CallCategorize ==
    /\ importer = "cat"
    /\ Len(txn.postings) < MaxPostings
    /\ prev_txn' = txn
    /\ txn' = Categorize(patterns, txn, row)
    /\ op' = "categorize"
    /\ UNCHANGED <<importer, narration_to_account_mappings, from_account_mappings,
                   to_account_mappings, patterns, row>>
    /\ UNCHANGED <<pdf_vars, csv_vars, other_vars>>

\* categorizer.add(pattern, account); the account names the position of the
\* call among all calls of add on this object
CallAdd ==
    /\ importer = "cat"
    /\ Len(patterns) < MaxRules
    /\ \E pattern \in Regexes :
          patterns' = Add(patterns, pattern, AccountNames["rule"][Len(patterns) + 1])
    /\ op' = "add"
    /\ UNCHANGED <<importer, narration_to_account_mappings, from_account_mappings,
                   to_account_mappings, txn, row, prev_txn>>
    /\ UNCHANGED <<pdf_vars, csv_vars, other_vars>>

NextCat == CallSb1Finalize \/ CallBnFinalize \/ CallCategorize \/ CallAdd

SpecCat == InitCat /\ [][NextCat]_vars

----------------------------------------------------------------------------
(* Properties of categorization *)

\* the rules of the three SpareBank 1 tiers in scanning order, each with the
\* text it is matched against
Sb1Combined(t, r) ==
    LET rec(tier, m, field) ==
            [k \in 1..Len(m) |-> [tier |-> tier, pattern |-> m[k][1],
                                  account |-> m[k][2], field |-> field]]
    IN  rec("narration", narration_to_account_mappings, t.narration)
        \o rec("from", from_account_mappings, r.fra_konto)
        \o rec("to", to_account_mappings, r.til_konto)

Occurs(rule) == In(rule.pattern, rule.field)

\* a from/to rule is only consulted when the row's field is not empty
Consulted(rule) == rule.tier = "narration" \/ rule.field # <<>>

\* index of the first rule of c satisfying P, 0 when there is none
FirstIndex(c, P(_)) ==
    LET M == {k \in 1..Len(c) : P(c[k])}
    IN  IF M = {} THEN 0 ELSE CHOOSE k \in M : \A j \in M : k <= j

Sb1FinalizeCalled == importer = "sb1" /\ op = "finalize" /\ Len(prev_txn.postings) >= 1

Appended == Len(txn.postings) = Len(prev_txn.postings) + 1

\* C1 as stated: the appended posting's account is that of the first rule, in
\* the order narration, from, to, whose pattern occurs in its tier's field, and
\* nothing is appended when no pattern occurs.
C1_FirstOccurringRuleDecides ==
    Sb1FinalizeCalled =>
        LET c == Sb1Combined(prev_txn, row)
            k == FirstIndex(c, Occurs)
        IN  IF k = 0 THEN txn = prev_txn
            ELSE Appended /\ Last(txn.postings).account = c[k].account

OccursAndConsulted(rule) == Consulted(rule) /\ Occurs(rule)

\* C1 amended: the appended posting's account is that of the first rule, in the
\* order narration, from, to, whose pattern occurs in its tier's field, where
\* the from and to tiers are scanned only when the row's field is not empty;
\* the earlier postings are kept and nothing is appended when there is no such
\* rule.
C1_FirstConsultedRuleDecides ==
    Sb1FinalizeCalled =>
        LET c == Sb1Combined(prev_txn, row)
            k == FirstIndex(c, OccursAndConsulted)
        IN  IF k = 0 THEN txn = prev_txn
            ELSE /\ Appended
                 /\ SubSeq(txn.postings, 1, Len(prev_txn.postings)) = prev_txn.postings
                 /\ Last(txn.postings).account = c[k].account

\* C1 witness: the second to-account rule decided after the narration and the
\* from tier, both with rules, fell through
C1_Witness ==
    /\ Sb1FinalizeCalled /\ Appended
    /\ Len(narration_to_account_mappings) > 0
    /\ Len(from_account_mappings) > 0
    /\ Last(txn.postings).account = AccountNames["to"][2]

FinalizeAppendedToSingle ==
    /\ op = "finalize"
    /\ Len(prev_txn.postings) = 1
    /\ Len(txn.postings) = 2

\* C2: when finalize (either bank) appends a posting to a transaction with one
\* posting, the appended amount is the negated number of the first posting in
\* the importer's currency, and the two postings sum to zero (same currency,
\* numbers adding up to 0).
C2_BalancingPostingSumsToZero ==
    FinalizeAppendedToSingle =>
        LET first == txn.postings[1].units[1]
            second == txn.postings[2].units[1]
        IN  /\ second.number = 0 - first.number
            /\ second.currency = self_currency
            /\ first.currency = second.currency
            /\ first.number + second.number = 0

\* the part of C2 about the appended posting alone
NegatedInImporterCurrency ==
    FinalizeAppendedToSingle =>
        LET first == txn.postings[1].units[1]
            second == txn.postings[2].units[1]
        IN  /\ first.number + second.number = 0
            /\ second.currency = self_currency

\* no rule of any tier matches the transaction
NoSb1RuleOccurs ==
    LET c == Sb1Combined(prev_txn, row) IN \A k \in 1..Len(c) : ~Occurs(c[k])

NoPatternFound ==
    \A k \in 1..Len(patterns) : ~ReSearch(patterns[k][1], row.Beskrivelse)

\* C3: when no rule of any tier matches, the SpareBank 1 finalize and
\* DepositCategorizer.categorize return the transaction as it was, with only
\* its original single posting.
C3_NoMatchLeavesTransaction ==
    /\ (Sb1FinalizeCalled /\ NoSb1RuleOccurs) => txn = prev_txn
    /\ (importer = "cat" /\ op = "categorize" /\ NoPatternFound) => txn = prev_txn

\* C3 witness: every tier has a rule, none matches, one posting stays
C3_Witness ==
    /\ Sb1FinalizeCalled /\ NoSb1RuleOccurs
    /\ Len(narration_to_account_mappings) > 0
    /\ Len(from_account_mappings) > 0
    /\ Len(to_account_mappings) > 0
    /\ row.fra_konto # <<>> /\ row.til_konto # <<>>
    /\ Len(txn.postings) = 1

\* C4: a call of finalize or categorize on a transaction that already has two
\* postings (the result of the previous call) adds no third posting.
C4_Idempotent ==
    (op # "none" /\ Len(prev_txn.postings) = 2) => txn = prev_txn

BnFinalizeCalled == importer = "bn" /\ op = "finalize" /\ Len(prev_txn.postings) >= 1

\* the rules of a list whose pattern occurs in the narration
MatchingRules(mappings) ==
    {k \in 1..Len(mappings) : In(mappings[k][1], prev_txn.narration)}

\* C17: in the Bank Norwegian finalize the first narration rule whose pattern
\* occurs in the narration decides the account whatever the type of the row
\* is; with no such rule the type decides: Income:Unknown for Innbetaling
\* when no from-account rule matches, Expenses:Refunds for CreditVoucher,
\* Expenses:Uncategorized for every other type and for a missing one.
C17_NarrationRulesBeforeTypeDefaults ==
    BnFinalizeCalled =>
        LET account == Last(txn.postings).account
            matching == MatchingRules(narration_to_account_mappings)
        IN  /\ Appended
            /\ matching # {} =>
                  \E k \in matching :
                      /\ \A j \in matching : k <= j
                      /\ account = narration_to_account_mappings[k][2]
            /\ matching = {} =>
                  /\ (row.type = "Innbetaling" /\ MatchingRules(from_account_mappings) = {})
                        => account = "Income:Unknown"
                  /\ row.type = "CreditVoucher" => account = "Expenses:Refunds"
                  /\ row.type \notin {"Innbetaling", "CreditVoucher"}
                        => account = "Expenses:Uncategorized"

\* C17 witness: a row of type CreditVoucher, the first narration rule does not
\* match, the second does and decides
C17_Witness ==
    /\ BnFinalizeCalled
    /\ row.type = "CreditVoucher"
    /\ Len(prev_txn.postings) = 1
    /\ Last(txn.postings).account = AccountNames["narration"][2]

\* C18: a call of finalize or categorize leaves the rule lists and the
\* transaction it was given as they were, and returns a transaction with the
\* same date, narration, flag and metadata whose postings are the given ones,
\* in order and unmodified, followed by at most one new posting.
C18_CategorizationOnlyAppends ==
    [][op' \in {"finalize", "categorize"} =>
       /\ narration_to_account_mappings' = narration_to_account_mappings
       /\ from_account_mappings' = from_account_mappings
       /\ to_account_mappings' = to_account_mappings
       /\ patterns' = patterns
       /\ prev_txn' = txn
       /\ txn'.date = txn.date /\ txn'.narration = txn.narration
       /\ txn'.flag = txn.flag /\ txn'.meta = txn.meta
       /\ Len(txn'.postings) \in {Len(txn.postings), Len(txn.postings) + 1}
       /\ SubSeq(txn'.postings, 1, Len(txn.postings)) = txn.postings]_vars

\* C18 witness: finalize was given a transaction of two postings and returned
\* one of three postings that starts with the original posting and keeps the
\* metadata
C18_Witness ==
    /\ op = "finalize"
    /\ Len(prev_txn.postings) = 2
    /\ Len(txn.postings) = 3
    /\ txn.postings[1].account = account_name
    /\ txn.meta = [filename |-> <<"f">>, lineno |-> <<1>>]

\* the positions of the rules whose regular expression is found in the text
FoundAt(pats, text) == {k \in 1..Len(pats) : ReSearch(pats[k][1], text)}

\* C19: the rule list of a DepositCategorizer holds the rules in the order of
\* the calls of add, the constructor's included (the k-th call gave the k-th
\* rule account name), and a call of categorize with some rule found in the
\* row's Beskrivelse appended exactly one posting, with the account of the
\* earliest-added such rule and no amount.
C19_EarliestAddedRuleWins ==
    importer = "cat" =>
        /\ \A k \in 1..Len(patterns) : patterns[k][2] = AccountNames["rule"][k]
        /\ (op = "categorize" /\ FoundAt(patterns, row.Beskrivelse) # {}) =>
              LET first == CHOOSE k \in FoundAt(patterns, row.Beskrivelse) :
                              \A j \in FoundAt(patterns, row.Beskrivelse) : k <= j
              IN  txn.postings = prev_txn.postings
                                 \o <<[account |-> patterns[first][2], units |-> <<>>]>>

\* C19 witness: categorize ran on a list of two rules that are both found, the
\* second of them added by a call of add after construction or by the
\* constructor, and appended the posting of the first
C19_Witness ==
    /\ importer = "cat" /\ op = "categorize"
    /\ Len(patterns) = 2
    /\ FoundAt(patterns, row.Beskrivelse) = {1, 2}
    /\ Len(prev_txn.postings) = 1
    /\ Len(txn.postings) = 2
    /\ txn.postings[2].account = "Expenses:R1"

----------------------------------------------------------------------------
(* Text and number helpers (python str methods, decimal.Decimal, beancount D) *)

DigitChars == <<"0", "1", "2", "3", "4", "5", "6", "7", "8", "9">>

IsDigit(c) == \E i \in 1..Len(DigitChars) : DigitChars[i] = c

DigitValue(c) == (CHOOSE i \in 1..Len(DigitChars) : DigitChars[i] = c) - 1

\* str.replace(a, "")
RemoveChars(s, chars) == SelectSeq(s, LAMBDA c : c \notin chars)

\* str.replace(a, b) for single characters
ReplaceChar(s, a, b) == [i \in 1..Len(s) |-> IF s[i] = a THEN b ELSE s[i]]

\* value of a sequence of digit characters
DigitsValue(s) ==
    LET V[k \in 0..Len(s)] == IF k = 0 THEN 0 ELSE V[k - 1] * 10 + DigitValue(s[k])
    IN V[Len(s)]

\* a decimal number is num / 10^exp; ok = FALSE stands for the exception
\* decimal.InvalidOperation
DecimalValue(num, exp) == [ok |-> TRUE, num |-> num, exp |-> exp]
InvalidDecimal == [ok |-> FALSE, num |-> 0, exp |-> 0]
ZERO == DecimalValue(0, 0)

\* decimal.Decimal(text): [sign] digits [. digits] | [sign] . digits
Decimal(text) ==
    LET signed == text # <<>> /\ text[1] \in {"-", "+"}
        body == IF signed THEN Tail(text) ELSE text
        dots == {i \in 1..Len(body) : body[i] = "."}
        digits == RemoveChars(body, {"."})
        exp == IF dots = {} THEN 0 ELSE Len(body) - (CHOOSE i \in dots : TRUE)
        magnitude == DigitsValue(digits)
    IN  IF /\ Cardinality(dots) <= 1
           /\ digits # <<>>
           /\ \A i \in 1..Len(digits) : IsDigit(digits[i])
        THEN DecimalValue(IF signed /\ text[1] = "-" THEN 0 - magnitude ELSE magnitude, exp)
        ELSE InvalidDecimal

\* beancount.core.number.D: '' is ZERO, commas and spaces are dropped
D(text) ==
    IF text = <<>> THEN ZERO ELSE Decimal(RemoveChars(text, {",", " "}))

----------------------------------------------------------------------------
(* datetime.date *)

IsLeap(year) == year % 4 = 0 /\ (year % 100 # 0 \/ year % 400 = 0)

DaysInMonth(year, month) ==
    IF month = 2 THEN (IF IsLeap(year) THEN 29 ELSE 28)
    ELSE IF month \in {4, 6, 9, 11} THEN 30 ELSE 31

\* datetime.date(year, month, day): <<>> stands for ValueError
Date(year, month, day) ==
    IF /\ year >= 1 /\ year <= 9999
       /\ month >= 1 /\ month <= 12
       /\ day >= 1 /\ day <= DaysInMonth(year, month)
    THEN <<[year |-> year, month |-> month, day |-> day]>>
    ELSE <<>>

\* current_date > latest_date
DateGreater(a, b) ==
    \/ a.year > b.year
    \/ a.year = b.year /\ a.month > b.month
    \/ a.year = b.year /\ a.month = b.month /\ a.day > b.day

\* bug variant: the day is incremented without looking at the month's length
NextDayNoCarry(d) == <<[d EXCEPT !.day = d.day + 1]>>

\* date + datetime.timedelta(days=1): <<>> stands for OverflowError
PlusOneDay(d) ==
    IF d.day < DaysInMonth(d.year, d.month) THEN Date(d.year, d.month, d.day + 1)
    ELSE IF d.month < 12 THEN Date(d.year, d.month + 1, 1)
    ELSE Date(d.year + 1, 1, 1)

----------------------------------------------------------------------------
(* PDFStatementImporter: the extracted text *)

\* The text of a page is a sequence of lines, each holding one item of interest:
\*   a statement-period marker "perioden dd.mm.yyyy - dd.mm.yyyy" (its end date
\*   as the three numbers the regular expression captures),
\*   or a balance line: one of the labels followed by a run of [0-9.,] characters.
PeriodLine(day, month, year) ==
    [kind |-> "period", end |-> <<day, month, year>>, label |-> "", amount |-> <<>>]
SaldoLine(label, amount) ==
    [kind |-> "saldo", end |-> <<>>, label |-> label, amount |-> amount]

\* full_text += page.extract_text() + "\n"
FullText(pp) ==
    LET T[k \in 0..Len(pp)] == IF k = 0 THEN <<>> ELSE T[k - 1] \o pp[k]
    IN T[Len(pp)]

\* bug variant: the comparison is dropped, the last valid marker wins
LastEndDate(text) ==
    LET L[k \in 0..Len(text)] ==
            IF k = 0 THEN <<>>
            ELSE IF text[k].kind # "period" THEN L[k - 1]
            ELSE LET current_date == Date(text[k].end[3], text[k].end[2], text[k].end[1])
                 IN  IF current_date = <<>> THEN L[k - 1] ELSE current_date
    IN L[Len(text)]

\* bug variant: a marker whose date is rejected discards what was found so far
EndDateResetByInvalid(text) ==
    LET L[k \in 0..Len(text)] ==
            IF k = 0 THEN <<>>
            ELSE IF text[k].kind # "period" THEN L[k - 1]
            ELSE LET current_date == Date(text[k].end[3], text[k].end[2], text[k].end[1])
                     latest_date == L[k - 1]
                 IN  IF current_date = <<>> THEN <<>>
                     ELSE IF latest_date = <<>> \/ DateGreater(current_date[1], latest_date[1])
                          THEN current_date
                          ELSE latest_date
    IN L[Len(text)]

\* _extract_end_date: loop over the matches of the period pattern
ExtractEndDate(text) ==
    LET L[k \in 0..Len(text)] ==
            IF k = 0 THEN <<>>
            ELSE IF text[k].kind # "period" THEN L[k - 1]
            ELSE LET current_date == Date(text[k].end[3], text[k].end[2], text[k].end[1])
                     latest_date == L[k - 1]
                 IN  IF current_date = <<>> THEN latest_date
                     ELSE IF latest_date = <<>> \/ DateGreater(current_date[1], latest_date[1])
                          THEN current_date
                          ELSE latest_date
    IN L[Len(text)]

\* the four balance_patterns, in list order
balance_patterns == <<"SaldoiDeresfavor", "Saldo i Deres favor", "Saldo.*?", "Saldo kr">>

\* match.group(1) of pattern p on a line, <<>> when the pattern does not match it.
\* Patterns 1, 2 and 4 need their own label and capture the whole run [\d.,]+ ;
\* pattern 3 accepts any line starting with Saldo and captures \d[\d.,]+ : from
\* the first digit of the run that is followed by another character of the run.
Group1(p, line) ==
    IF line.kind # "saldo" \/ line.amount = <<>> THEN <<>>
    ELSE IF balance_patterns[p] = "Saldo.*?"
    THEN LET starts == {i \in 1..(Len(line.amount) - 1) : IsDigit(line.amount[i])}
         IN  IF starts = {} THEN <<>>
             ELSE <<SubSeq(line.amount,
                           CHOOSE i \in starts : \A j \in starts : i <= j,
                           Len(line.amount))>>
    ELSE IF balance_patterns[p] = line.label THEN <<line.amount>>
    ELSE <<>>

\* match.group(1).replace('.', '').replace(',', '.')
NormalizeBalance(group) == ReplaceChar(RemoveChars(group, {"."}), ",", ".")

\* the balances appended for one pattern: its matches in text order
MatchesOf(p, text) ==
    LET M[k \in 0..Len(text)] ==
            IF k = 0 THEN <<>>
            ELSE IF Group1(p, text[k]) = <<>> THEN M[k - 1]
            ELSE Append(M[k - 1], NormalizeBalance(Group1(p, text[k])[1]))
    IN M[Len(text)]

\* all_balances after the loop over balance_patterns
AllBalances(text) ==
    LET A[p \in 0..Len(balance_patterns)] ==
            IF p = 0 THEN <<>> ELSE A[p - 1] \o MatchesOf(p, text)
    IN A[Len(balance_patterns)]

\* _extract_final_balance: all_balances[-1], or None
ExtractFinalBalance(text) ==
    LET all_balances == AllBalances(text)
    IN  IF all_balances # <<>> THEN <<Last(all_balances)>> ELSE <<>>

----------------------------------------------------------------------------
(* PDFStatementImporter.extract *)

\* data.Balance(meta, date, account, amount, tolerance=None, diff_amount=None)
Balance(meta, date, account, amount) ==
    [meta |-> meta, date |-> date, account |-> account, amount |-> amount,
     tolerance |-> <<>>, diff_amount |-> <<>>]

\* data.new_metadata(filepath, 1)
NewMetadata(lineno) == [filename |-> "statement.pdf", lineno |-> lineno, duplicate |-> FALSE]

\* bug variant: a marked entry is removed from the list
DeduplicateDropping(es, mark) ==
    IF mark THEN <<>> ELSE es

\* deduplicate: extract.mark_duplicate_entries may mark an entry, whether it does
\* is decided by the library's comparator
Deduplicate(es, mark) ==
    [k \in 1..Len(es) |-> [es[k] EXCEPT !.meta.duplicate = mark]]

\* bug variant: the duplicate pass runs whenever there are new entries
AlwaysDeduplicate(existing_list, es) == es # <<>>

\* if existing_entries and entries
ShouldDeduplicate(existing_list, es) == existing_list # <<>> /\ es # <<>>

\* bug variant: "if end_date or balance"; a missing date then raises TypeError at
\* end_date + timedelta, a missing balance becomes D(None) = ZERO
BuildEntriesOr(ed, bal) ==
    IF ed # <<>> \/ (bal # <<>> /\ bal[1] # <<>>)
    THEN LET balance_date == IF ed = <<>> THEN <<>> ELSE PlusOneDay(ed[1])
             number == IF bal = <<>> THEN ZERO ELSE D(bal[1])
         IN  IF balance_date = <<>> \/ ~number.ok
             THEN [raised |-> TRUE, entries |-> <<>>]
             ELSE [raised |-> FALSE,
                   entries |-> <<Balance(NewMetadata(1), balance_date[1],
                                         pdf_self.account_name,
                                         Amount(number, pdf_self.currency))>>]
    ELSE [raised |-> FALSE, entries |-> <<>>]

\* lines 141-168: what is appended to entries; raised when a step raises
\* (D on a malformed number, or the date overflowing)
BuildEntries(ed, bal) ==
    IF ed # <<>> /\ bal # <<>> /\ bal[1] # <<>>
    THEN LET balance_date == PlusOneDay(ed[1])
             number == D(bal[1])
         IN  IF balance_date = <<>> \/ ~number.ok
             THEN [raised |-> TRUE, entries |-> <<>>]
             ELSE [raised |-> FALSE,
                   entries |-> <<Balance(NewMetadata(1), balance_date[1],
                                         pdf_self.account_name,
                                         Amount(number, pdf_self.currency))>>]
    ELSE [raised |-> FALSE, entries |-> <<>>]

\* extract, when opening or reading the PDF raises: the except branch returns
\* the still empty list
ExtractReadError ==
    /\ pdf_pc = "ready"
    /\ pdf_pc' = "caught"
    /\ entries' = <<>>
    /\ UNCHANGED <<pdf_self, pages, existing_entries, end_date, balance, deduplicate_called>>
    /\ UNCHANGED <<cat_vars, csv_vars, other_vars>>

\* extract on a document without pages: return entries at line 128
ExtractNoPages ==
    /\ pdf_pc = "ready"
    /\ Len(pages) = 0
    /\ pdf_pc' = "returned"
    /\ entries' = <<>>
    /\ UNCHANGED <<pdf_self, pages, existing_entries, end_date, balance, deduplicate_called>>
    /\ UNCHANGED <<cat_vars, csv_vars, other_vars>>

\* extract on a document with pages
Extract ==
    /\ pdf_pc = "ready"
    /\ Len(pages) # 0
    /\ LET full_text == FullText(pages)
           ed == ExtractEndDate(full_text)
           bal == ExtractFinalBalance(full_text)
           built == BuildEntries(ed, bal)
       IN  /\ end_date' = ed
           /\ balance' = bal
           /\ IF built.raised
              THEN pdf_pc' = "caught" /\ entries' = <<>> /\ deduplicate_called' = FALSE
              ELSE /\ pdf_pc' = "returned"
                   /\ IF ShouldDeduplicate(existing_entries, built.entries)
                      THEN /\ \E mark \in BOOLEAN :
                                 entries' = Deduplicate(built.entries, mark)
                           /\ deduplicate_called' = TRUE
                      ELSE /\ entries' = built.entries
                           /\ deduplicate_called' = FALSE
    /\ UNCHANGED <<pdf_self, pages, existing_entries>>
    /\ UNCHANGED <<cat_vars, csv_vars, other_vars>>

----------------------------------------------------------------------------
(* Inputs of the PDF specification *)

EndDates == {<<28, 2, 2024>>, <<30, 4, 2024>>, <<31, 12, 2023>>, <<31, 2, 2024>>,
             <<31, 12, 9999>>}

SaldoLines ==
    {SaldoLine("SaldoiDeresfavor", <<"1", ",", "5">>),
     SaldoLine("Saldo kr", <<"2", ".", "0">>),
     SaldoLine("Saldo i Deres favor", <<"7">>),
     SaldoLine("Saldo kr", <<"1", ",", "2", ",", "3">>),
     SaldoLine("SaldoiDeresfavor", <<".">>)}

Lines == {PeriodLine(e[1], e[2], e[3]) : e \in EndDates} \cup SaldoLines

\* the lines of a text cut into n pages after the positions cuts[1] <= cuts[2] ...
Paginate(text, n, cuts) ==
    [k \in 1..n |-> SubSeq(text,
                           (IF k = 1 THEN 0 ELSE cuts[k - 1]) + 1,
                           IF k = n THEN Len(text) ELSE cuts[k])]

\* non-decreasing cut positions for n pages
Cuts(text, n) ==
    {c \in [1..(n - 1) -> 0..Len(text)] : \A k \in 1..(n - 2) : c[k] <= c[k + 1]}

ExistingBalance ==
    Balance(NewMetadata(7), [year |-> 2024, month |-> 1, day |-> 1], account_name,
            Amount(DecimalValue(15, 1), self_currency))

CatIdle ==
    /\ importer = "-"
    /\ narration_to_account_mappings = <<>>
    /\ from_account_mappings = <<>>
    /\ to_account_mappings = <<>>
    /\ patterns = <<>>
    /\ txn = [narration |-> <<>>, postings |-> <<>>]
    /\ row = NoRow
    /\ prev_txn = txn
    /\ op = "none"

InitPdf ==
    /\ pdf_self = [account_name |-> "Assets:Savings", currency |-> "EUR"]
    /\ \/ pages = <<>>
       \/ \E text \in SeqsUpTo(Lines, MaxTokens), n \in 1..MaxPages :
             \E cuts \in Cuts(text, n) : pages = Paginate(text, n, cuts)
    /\ existing_entries \in {<<>>, <<ExistingBalance>>}
    /\ end_date = <<>>
    /\ balance = <<>>
    /\ entries = <<>>
    /\ pdf_pc = "ready"
    /\ deduplicate_called = FALSE
    /\ CatIdle
    /\ CsvIdle
    /\ OtherIdle

NextPdf == ExtractReadError \/ ExtractNoPages \/ Extract

SpecPdf == InitPdf /\ [][NextPdf]_vars

----------------------------------------------------------------------------
(* Properties of the PDF statement importer *)

\* proleptic Gregorian ordinal of a date (1 for 0001-01-01)
Ordinal(d) ==
    LET y == d.year - 1
        before_month == <<0, 31, 59, 90, 120, 151, 181, 212, 243, 273, 304, 334>>
    IN  y * 365 + (y \div 4) - (y \div 100) + (y \div 400)
        + before_month[d.month] + (IF d.month > 2 /\ IsLeap(d.year) THEN 1 ELSE 0)
        + d.day

\* the end dates of the period markers of the document that are calendar dates
ValidEndDates ==
    LET text == FullText(pages)
    IN  {Date(text[k].end[3], text[k].end[2], text[k].end[1])[1] :
            k \in {j \in 1..Len(text) :
                    /\ text[j].kind = "period"
                    /\ Date(text[j].end[3], text[j].end[2], text[j].end[1]) # <<>>}}

\* extract got past reading the pages
Scanned == (pdf_pc = "returned" /\ pages # <<>>) \/ (pdf_pc = "caught" /\ end_date # <<>>)

\* C5: when the text holds period markers with valid end dates, the extracted
\* end date is the latest of them, wherever in the document it stands.
C5_EndDateIsMaximum ==
    (Scanned /\ ValidEndDates # {}) =>
        /\ end_date # <<>>
        /\ end_date[1] \in ValidEndDates
        /\ \A d \in ValidEndDates : Ordinal(d) <= Ordinal(end_date[1])

\* C5 witness: two pages, each with a valid marker, the later date on the first
C5_Witness ==
    /\ pdf_pc = "returned" /\ Len(pages) = 2
    /\ Len(pages[1]) = 1 /\ pages[1][1] = PeriodLine(30, 4, 2024)
    /\ Len(pages[2]) = 1 /\ pages[2][1] = PeriodLine(28, 2, 2024)
    /\ end_date = Date(2024, 4, 30)

\* the period markers of the document whose end date datetime.date rejects
InvalidMarkers ==
    LET text == FullText(pages)
    IN  {k \in 1..Len(text) :
            /\ text[k].kind = "period"
            /\ Date(text[k].end[3], text[k].end[2], text[k].end[1]) = <<>>}

\* C21: a period marker whose end date is not a calendar date is skipped: in
\* a document that holds such a marker the extracted end date is still the
\* latest of the valid end dates, whether they stand before or after it; and
\* when no marker carries a valid date no end date is found and extract
\* returns no entry.
C21_InvalidMarkerSkipped ==
    Scanned =>
        /\ (InvalidMarkers # {} /\ ValidEndDates # {}) =>
              /\ end_date # <<>>
              /\ end_date[1] \in ValidEndDates
              /\ \A d \in ValidEndDates : ~DateGreater(d, end_date[1])
        /\ ValidEndDates = {} => (end_date = <<>> /\ entries = <<>>)

\* C21 witness: a valid marker, then the marker 31.02.2024, then a balance
\* line; the end date is the valid one and the Balance entry was returned
C21_Witness ==
    /\ pdf_pc = "returned"
    /\ FullText(pages) = <<PeriodLine(28, 2, 2024), PeriodLine(31, 2, 2024),
                             SaldoLine("Saldo i Deres favor", <<"7">>)>>
    /\ end_date = Date(2024, 2, 28)
    /\ Len(entries) = 1

\* the lines on which some balance pattern captures a figure (at least one
\* character besides thousands separators)
BalanceOccurrences ==
    LET text == FullText(pages)
    IN  {k \in 1..Len(text) :
            \E p \in 1..Len(balance_patterns) :
                /\ Group1(p, text[k]) # <<>>
                /\ NormalizeBalance(Group1(p, text[k])[1]) # <<>>}

\* C6: when the text holds balance occurrences, the extracted balance is the
\* one of the occurrence that stands last in the document, whatever its label.
C6_LastBalanceInDocumentOrder ==
    (pdf_pc = "returned" /\ BalanceOccurrences # {}) =>
        LET text == FullText(pages)
            last == CHOOSE k \in BalanceOccurrences : \A j \in BalanceOccurrences : j <= k
        IN  /\ balance # <<>>
            /\ \E p \in 1..Len(balance_patterns) :
                  /\ Group1(p, text[last]) # <<>>
                  /\ balance[1] = NormalizeBalance(Group1(p, text[last])[1])

\* C7: a Balance entry is dated the day after the extracted end date, is on the
\* importer's account and in its currency, and has no tolerance.
C7_BalanceDatedDayAfterEndDate ==
    \A k \in 1..Len(entries) :
        /\ end_date # <<>>
        /\ Date(entries[k].date.year, entries[k].date.month, entries[k].date.day) # <<>>
        /\ Ordinal(entries[k].date) = Ordinal(end_date[1]) + 1
        /\ entries[k].account = pdf_self.account_name
        /\ entries[k].amount.currency = pdf_self.currency
        /\ entries[k].tolerance = <<>>

\* C7 witness: a statement ending on 31.12.2023 gives a Balance on 01.01.2024
C7_Witness ==
    /\ Len(entries) = 1
    /\ end_date = Date(2023, 12, 31)
    /\ entries[1].date = [year |-> 2024, month |-> 1, day |-> 1]

----------------------------------------------------------------------------
(* SpareBank 1 CSV extract: beancount_no_sparebank1/deposit.py *)

\* str.strip('"')
StripQuotes(text) ==
    LET keep == {i \in 1..Len(text) : text[i] # "\""}
    IN  IF keep = {} THEN <<>>
        ELSE SubSeq(text, CHOOSE i \in keep : \A j \in keep : i <= j,
                          CHOOSE i \in keep : \A j \in keep : j <= i)

\* str.split(ch)
Split(text, ch) ==
    LET F[k \in 0..Len(text)] ==
            IF k = 0 THEN <<<<>>>>
            ELSE LET parts == F[k - 1]
                 IN  IF text[k] = ch THEN Append(parts, <<>>)
                     ELSE [parts EXCEPT ![Len(parts)] = Append(@, text[k])]
    IN F[Len(text)]

AllDigits(text) == \A i \in 1..Len(text) : IsDigit(text[i])

\* datetime.datetime.strptime(text, "%d.%m.%Y").date(): <<>> stands for ValueError
Strptime(text) ==
    LET parts == Split(text, ".")
    IN  IF /\ Len(parts) = 3
           /\ \A i \in 1..3 : AllDigits(parts[i])
           /\ Len(parts[1]) \in {1, 2} /\ Len(parts[2]) \in {1, 2} /\ Len(parts[3]) = 4
        THEN Date(DigitsValue(parts[3]), DigitsValue(parts[2]), DigitsValue(parts[1]))
        ELSE <<>>

\* bug variant: the thousands dots are not removed
ParseAmountKeepDots(text) ==
    IF text = <<>> THEN D(<<>>)
    ELSE LET clean_str == ReplaceChar(StripQuotes(text), ",", ".")
         IN D(clean_str)

\* _parse_amount: ok = FALSE stands for the ValueError D raises
ParseAmount(text) ==
    IF text = <<>> THEN D(<<>>)
    ELSE LET clean_str == ReplaceChar(RemoveChars(StripQuotes(text), {"."}), ",", ".")
         IN D(clean_str)

\* Decimal comparison a != D("0")
NonZero(a) == a.num # 0

\* bug variant: the debit column is negated
EffectiveAmountNegatedDebit(inn_decimal, ut_decimal) ==
    IF NonZero(inn_decimal) THEN inn_decimal
    ELSE [ut_decimal EXCEPT !.num = 0 - ut_decimal.num]

\* amount_decimal = inn_decimal if inn_decimal != D("0") else ut_decimal
EffectiveAmount(inn_decimal, ut_decimal) ==
    IF NonZero(inn_decimal) THEN inn_decimal ELSE ut_decimal

csv_flag == "*"

\* data.new_metadata(filepath, index) and the three optional keys
RowMetadata(lineno, til_konto, fra_konto, rentedato) ==
    LET keys == {"filename", "lineno"}
                \cup (IF til_konto # <<>> THEN {"to_account"} ELSE {})
                \cup (IF fra_konto # <<>> THEN {"from_account"} ELSE {})
                \cup (IF rentedato # <<>> THEN {"rentedato"} ELSE {})
    IN  [k \in keys |->
            IF k = "filename" THEN <<"f">>
            ELSE IF k = "lineno" THEN <<lineno>>
            ELSE IF k = "to_account" THEN StripQuotes(til_konto)
            ELSE IF k = "from_account" THEN StripQuotes(fra_konto)
            ELSE StripQuotes(rentedato)]

\* the row can be unpacked into the eight names of line 166
Unpacks(r) == Len(r) = 8

\* lines 166-219 for one row: the transaction built from it
RowTransaction(lineno, r) ==
    LET date_str == r[1]
        description == r[2]
        rentedato == r[3]
        inn == r[4]
        ut == r[5]
        til_konto == r[6]
        fra_konto == r[7]
        amount_decimal == EffectiveAmount(ParseAmount(inn), ParseAmount(ut))
        transaction ==
            Transaction(RowMetadata(lineno, til_konto, fra_konto, rentedato),
                        Strptime(StripQuotes(date_str))[1], csv_flag,
                        StripQuotes(description),
                        <<Posting(account_name, <<Amount(amount_decimal, self_currency)>>)>>)
    IN  IF patterns # <<>>
        THEN Categorize(patterns, transaction, [Beskrivelse |-> description])
        ELSE transaction

\* some statement of lines 166-177 raises ValueError for the row
RowRaises(r) ==
    IF ~Unpacks(r) THEN TRUE
    ELSE \/ Strptime(StripQuotes(r[1])) = <<>>
         \/ ~ParseAmount(r[4]).ok
         \/ ~ParseAmount(r[5]).ok

\* bug variant: the list is kept ordered by date
InsertByDate(es, e) ==
    IF es # <<>> /\ DateGreater(es[Len(es)].date, e.date)
    THEN SubSeq(es, 1, Len(es) - 1) \o <<e, es[Len(es)]>>
    ELSE Append(es, e)

\* entries.append(transaction)
AppendEntry(es, e) == Append(es, e)

\* if not row or not row[0]
Skippable(r) == IF r = <<>> THEN TRUE ELSE r[1] = <<>>

\* one iteration of the loop over the reader: an empty row or one with an empty
\* first field is skipped
SkipRow ==
    /\ csv_pc = "reading"
    /\ index < Len(rows)
    /\ Skippable(rows[index + 1])
    /\ index' = index + 1
    /\ UNCHANGED <<rows, csv_entries, csv_pc>>
    /\ UNCHANGED <<cat_vars, pdf_vars, other_vars>>

\* one iteration: the row is turned into a transaction and appended
AppendRow ==
    /\ csv_pc = "reading"
    /\ index < Len(rows)
    /\ ~Skippable(rows[index + 1])
    /\ ~RowRaises(rows[index + 1])
    /\ csv_entries' = AppendEntry(csv_entries, RowTransaction(index + 1, rows[index + 1]))
    /\ index' = index + 1
    /\ UNCHANGED <<rows, csv_pc>>
    /\ UNCHANGED <<cat_vars, pdf_vars, other_vars>>

\* one iteration: a statement raises ValueError; nothing in extract catches it,
\* the exception leaves extract and no list is returned
RaiseOnRow ==
    /\ csv_pc = "reading"
    /\ index < Len(rows)
    /\ ~Skippable(rows[index + 1])
    /\ RowRaises(rows[index + 1])
    /\ csv_pc' = "raised"
    /\ index' = index + 1
    /\ UNCHANGED <<rows, csv_entries>>
    /\ UNCHANGED <<cat_vars, pdf_vars, other_vars>>

\* the reader is exhausted: return entries
ReturnEntries ==
    /\ csv_pc = "reading"
    /\ index = Len(rows)
    /\ csv_pc' = "done"
    /\ UNCHANGED <<rows, index, csv_entries>>
    /\ UNCHANGED <<cat_vars, pdf_vars, other_vars>>

----------------------------------------------------------------------------
(* Inputs of the CSV specification *)

GoodDate == <<"0", "5", ".", "0", "1", ".", "2", "0", "2", "4">>
DateTexts == {GoodDate, <<"0", "4", ".", "0", "1", ".", "2", "0", "2", "4">>, <<"3", "1", ".", "0", "2", ".", "2", "0", "2", "4">>, <<"2", "0", "2", "4", "-", "0", "1", "-", "0", "5">>, <<>>}
InnTexts == {<<>>, <<"1", ".", "0", "0", "0", ",", "5", "0">>, <<"0", ",", "0", "0">>, <<"\"", "1", "2", ",", "5", "\"">>, <<"x">>}
UtTexts == {<<>>, <<"-", "2", "5", "0", ",", "0", "0">>, <<"3", "0", ",", "0", "0">>, <<"-">>}
KontoCells == {<<>>, <<"a">>}

BaseRow == <<GoodDate, <<"a">>, <<>>, <<>>, <<"-", "2", "5", "0", ",", "0", "0">>, <<>>, <<>>, <<>>>>

CsvRows ==
    {<<>>, SubSeq(BaseRow, 1, 7)}
    \cup {[BaseRow EXCEPT ![1] = d] : d \in DateTexts}
    \cup {[BaseRow EXCEPT ![2] = d] : d \in {<<"b">>, <<"\"", "a", "\"">>}}
    \cup {[BaseRow EXCEPT ![6] = <<"\"">>]}
    \cup {[BaseRow EXCEPT ![4] = i, ![5] = u] : i \in InnTexts, u \in UtTexts}
    \cup {[BaseRow EXCEPT ![3] = r, ![6] = t, ![7] = f] :
            r \in {<<>>, GoodDate}, t \in KontoCells, f \in KontoCells}

InitCsv ==
    /\ rows \in SeqsUpTo(CsvRows, MaxRows)
    /\ index = 0
    /\ csv_entries = <<>>
    /\ csv_pc = "reading"
    /\ importer = "-"
    /\ narration_to_account_mappings = <<>>
    /\ from_account_mappings = <<>>
    /\ to_account_mappings = <<>>
    /\ patterns \in {<<>>, Rules("rule", <<<<"a">>>>)}
    /\ txn = [narration |-> <<>>, postings |-> <<>>]
    /\ row = NoRow
    /\ prev_txn = txn
    /\ op = "none"
    /\ PdfIdle
    /\ OtherIdle

NextCsv == SkipRow \/ AppendRow \/ RaiseOnRow \/ ReturnEntries

SpecCsv == InitCsv /\ [][NextCsv]_vars

----------------------------------------------------------------------------
(* Properties of the CSV extract *)

\* the row can be turned into a transaction: eight columns, a calendar date in
\* the first, numbers (or nothing) in the two amount columns
WellFormed(r) ==
    /\ Len(r) = 8
    /\ Strptime(StripQuotes(r[1])) # <<>>
    /\ ParseAmount(r[4]).ok
    /\ ParseAmount(r[5]).ok

\* the numbers of the rows that have the transaction with that line number
RowsWithEntry == {csv_entries[k].meta["lineno"][1] : k \in 1..Len(csv_entries)}

\* C9: a malformed row never aborts the extract (no exception leaves it), and
\* once the rows are consumed every well-formed row has its transaction.
C9_BadRowIsSkipped ==
    /\ csv_pc # "raised"
    /\ csv_pc = "done" =>
          \A i \in 1..Len(rows) :
              (~Skippable(rows[i]) /\ WellFormed(rows[i])) => i \in RowsWithEntry

\* the sign written in an amount text
WrittenNegative(text) == \E i \in 1..Len(text) : text[i] = "-"

\* C10: the first posting of the transaction of a row carries the parsed Inn
\* column when that is not zero and otherwise the parsed Ut column, with the
\* sign written in the file (never turned around); empty columns count as zero,
\* so a row with both columns empty has amount zero.
C10_CreditElseDebitVerbatim ==
    \A k \in 1..Len(csv_entries) :
        LET r == rows[csv_entries[k].meta["lineno"][1]]
            inn == ParseAmount(r[4])
            ut == ParseAmount(r[5])
            number == csv_entries[k].postings[1].units[1].number
        IN  /\ csv_entries[k].postings[1].account = account_name
            /\ number.ok
            /\ inn.num # 0 => number = inn
            /\ inn.num = 0 => number = ut
            /\ (inn.num = 0 /\ WrittenNegative(r[5])) => number.num <= 0
            /\ (inn.num = 0 /\ ~WrittenNegative(r[5])) => number.num >= 0
            /\ r[4] = <<>> => inn = ZERO
            /\ r[5] = <<>> => ut = ZERO
            /\ (r[4] = <<>> /\ r[5] = <<>>) => number = ZERO

\* C10 witness: a row with Inn "0,00" and Ut "-250,00" gave the amount -250.00,
\* and a row with both columns empty gave zero
C10_Witness ==
    /\ Len(csv_entries) = 2
    /\ rows[1][4] = <<"0", ",", "0", "0">> /\ rows[1][5] = <<"-", "2", "5", "0", ",", "0", "0">>
    /\ csv_entries[1].postings[1].units[1].number = DecimalValue(0 - 25000, 2)
    /\ rows[2][4] = <<>> /\ rows[2][5] = <<>>
    /\ csv_entries[2].postings[1].units[1].number = ZERO

\* C15: with no existing entries (an empty list or None) the PDF extract does
\* not call deduplicate at all, and no entry it returns carries a duplicate
\* mark.
C15_NoExistingNoMarks ==
    existing_entries = <<>> =>
        /\ ~deduplicate_called
        /\ \A k \in 1..Len(entries) : ~entries[k].meta.duplicate

\* C15 witness: a Balance was extracted with no existing entries
C15_Witness ==
    /\ existing_entries = <<>>
    /\ pdf_pc = "returned"
    /\ Len(entries) = 1
    /\ ~entries[1].meta.duplicate

\* the list extract built before the duplicate pass
BuiltEntries(ed, bal) ==
    IF BuildEntries(ed, bal).raised THEN <<>> ELSE BuildEntries(ed, bal).entries

----------------------------------------------------------------------------
(* More properties of the CSV extract *)

\* the numbers of the rows consumed so far that are not skipped, in file order
KeptRows == SelectSeq([i \in 1..index |-> i], LAMBDA i : ~Skippable(rows[i]))

\* C12: while every row consumed so far is well-formed (or skipped as empty),
\* the entry list is exactly the transactions of the consumed rows with a
\* non-empty first field, one each, in the order of the rows in the file
\* whatever their dates are; empty rows and rows with an empty first field
\* add nothing.
C12_OneEntryPerRowInSourceOrder ==
    (\A i \in 1..index : Skippable(rows[i]) \/ WellFormed(rows[i])) =>
        /\ Len(csv_entries) = Len(KeptRows)
        /\ \A k \in 1..Len(KeptRows) :
              csv_entries[k] = RowTransaction(KeptRows[k], rows[KeptRows[k]])

\* C12 witness: two rows dated 05.01.2024 and then 04.01.2024 gave two
\* transactions in that order
C12_Witness ==
    /\ index = 2
    /\ Len(csv_entries) = 2
    /\ csv_entries[1].date = [year |-> 2024, month |-> 1, day |-> 5]
    /\ csv_entries[2].date = [year |-> 2024, month |-> 1, day |-> 4]

\* C13: in every transaction built from a row, each optional key (rentedato,
\* to_account, from_account) is present only when the row's field is not
\* empty, and no metadata key maps to the empty string.
C13_NoEmptyMetadataValue ==
    \A k \in 1..Len(csv_entries) :
        LET r == rows[csv_entries[k].meta["lineno"][1]]
            meta == csv_entries[k].meta
        IN  /\ "rentedato" \in DOMAIN meta => r[3] # <<>>
            /\ "to_account" \in DOMAIN meta => r[6] # <<>>
            /\ "from_account" \in DOMAIN meta => r[7] # <<>>
            /\ \A key \in DOMAIN meta : meta[key] # <<>>

----------------------------------------------------------------------------
(* _parse_amount on the Norwegian text of a decimal value *)

MaxPow == 3

\* the decimal digits of a natural number, most significant first
DigitsOf(n) ==
    LET len == CHOOSE k \in 1..12 : (n < 10 ^ k) /\ (k = 1 \/ n >= 10 ^ (k - 1))
    IN  [i \in 1..len |-> DigitChars[((n \div (10 ^ (len - i))) % 10) + 1]]

\* the digits in groups of three from the right, sep between the groups
Grouped(ds, sep) ==
    LET G[k \in 0..Len(ds)] ==
            IF k = 0 THEN <<>>
            ELSE G[k - 1]
                 \o (IF k > 1 /\ (Len(ds) - k + 1) % 3 = 0 THEN <<sep>> ELSE <<>>)
                 \o <<ds[k]>>
    IN G[Len(ds)]

\* the Norwegian text of a value with two fraction digits: optional minus,
\* grouped integer part, comma, two fraction digits, optionally in quotes
FormatNo(x, sep, quoted) ==
    LET magnitude == IF x.num < 0 THEN 0 - x.num ELSE x.num
        frac == magnitude % 100
        body == (IF x.num < 0 THEN <<"-">> ELSE <<>>)
                \o Grouped(DigitsOf(magnitude \div 100), sep)
                \o <<",", DigitChars[(frac \div 10) + 1], DigitChars[(frac % 10) + 1]>>
    IN  IF quoted THEN <<"\"">> \o body \o <<"\"">> ELSE body

IntParts == {0} \cup {m * (10 ^ k) : m \in {1, 12, 105}, k \in 0..MaxPow}
Fractions == {0, 5, 50, 99}
Amounts == {DecimalValue(s * (i * 100 + f), 2) : s \in {0 - 1, 1}, i \in IntParts, f \in Fractions}
Separators == {".", " "}

InitAmt ==
    /\ amount_value \in Amounts
    /\ \E sep \in Separators, quoted \in BOOLEAN : amount_str = FormatNo(amount_value, sep, quoted)
    /\ parsed = <<>>
    /\ CatIdle
    /\ PdfIdle
    /\ CsvIdle
    /\ DupIdle

\* one call of _parse_amount
CallParseAmount ==
    /\ parsed = <<>>
    /\ parsed' = <<ParseAmount(amount_str)>>
    /\ UNCHANGED <<amount_value, amount_str>>
    /\ UNCHANGED <<cat_vars, pdf_vars, csv_vars, dup_vars>>

NextAmt == CallParseAmount

SpecAmt == InitAmt /\ [][NextAmt]_vars

\* C11: parsing the Norwegian text of a decimal value with two fraction digits
\* (comma before the fraction, dot or space between the groups of thousands,
\* optional quotes around it, optional leading minus) gives back exactly that
\* value: no exception, the same number, the same two fraction digits.
C11_ParseAmountRoundTrips ==
    parsed # <<>> => parsed[1] = amount_value

\* C11 witness: the text "-1.000,50" in quotes was parsed to -1000.50
C11_Witness ==
    /\ amount_str = <<"\"", "-", "1", ".", "0", "0", "0", ",", "5", "0", "\"">>
    /\ parsed = <<DecimalValue(0 - 100050, 2)>>

----------------------------------------------------------------------------
(* deduplicate of the csvbase importers: beangulp's extract.mark_duplicate_entries *)
(* with similar.heuristic_comparator(max_date_delta, epsilon)                      *)

MaxNew == 1
MaxExisting == 1

Abs(n) == IF n < 0 THEN 0 - n ELSE n

\* abs(entry1.date - entry2.date) in days
DateDelta(a, b) == Abs(Ordinal(a) - Ordinal(b))

\* the sum of two decimals
AddDecimal(x, y) ==
    LET e == IF x.exp > y.exp THEN x.exp ELSE y.exp
    IN  DecimalValue(x.num * (10 ^ (e - x.exp)) + y.num * (10 ^ (e - y.exp)), e)

\* similar.amounts_map: the keys (account, currency) of the postings with units
AmountKeys(entry) ==
    {<<entry.postings[k].account, entry.postings[k].units[1].currency>> :
        k \in {j \in 1..Len(entry.postings) : entry.postings[j].units # <<>>}}

\* similar.amounts_map: the sum of the numbers posted under a key
AmountAt(entry, key) ==
    LET S[k \in 0..Len(entry.postings)] ==
            IF k = 0 THEN ZERO
            ELSE LET posting == entry.postings[k]
                 IN  IF posting.units # <<>>
                        /\ <<posting.account, posting.units[1].currency>> = key
                     THEN AddDecimal(S[k - 1], posting.units[1].number)
                     ELSE S[k - 1]
    IN S[Len(entry.postings)]

\* the order of sorted(common_keys) on the names the inputs use
SortedNames == <<"Assets:Bank", "Expenses:Food", "Expenses:Rent", "NOK", "USD">>
NameRank(name) == CHOOSE i \in 1..Len(SortedNames) : SortedNames[i] = name
KeyBefore(a, b) ==
    \/ NameRank(a[1]) < NameRank(b[1])
    \/ a[1] = b[1] /\ NameRank(a[2]) < NameRank(b[2])

\* one round of the comparator's loop over the common keys:
\*   "break"  both numbers are zero, or their ratio is within epsilon of one
\*   "false"  exactly one of them is zero (diff == ZERO)
\*   "next"   the numbers are too far apart
CompareNumbers(number1, number2, epsilon) ==
    LET a == Abs(number1.num) * (10 ^ number2.exp)
        b == Abs(number2.num) * (10 ^ number1.exp)
        hi == IF a > b THEN a ELSE b
        lo == IF a > b THEN b ELSE a
    IN  IF a = 0 /\ b = 0 THEN "break"
        ELSE IF lo = 0 THEN "false"
        ELSE IF (hi - lo) * (10 ^ epsilon.exp) < epsilon.num * lo THEN "break"
        ELSE "next"

\* the set of accounts of the postings of an entry
AccountsOf(entry) == {entry.postings[k].account : k \in 1..Len(entry.postings)}

\* the comparator heuristic_comparator(max_date_delta, epsilon) returns
Comparator(max_date_delta, epsilon, entry1, entry2) ==
    LET common_keys == AmountKeys(entry1) \cap AmountKeys(entry2)
        outcome(key) == CompareNumbers(AmountAt(entry1, key), AmountAt(entry2, key), epsilon)
        decisive == {key \in common_keys : outcome(key) # "next"}
        first == CHOOSE key \in decisive : \A other \in decisive \ {key} : KeyBefore(key, other)
    IN  /\ DateDelta(entry1.date, entry2.date) <= max_date_delta
        /\ decisive # {}
        /\ outcome(first) = "break"
        /\ \/ AccountsOf(entry1) \subseteq AccountsOf(entry2)
           \/ AccountsOf(entry2) \subseteq AccountsOf(entry1)

\* data.iter_entry_dates(context, date - window, date + window): the entries of
\* the date-sorted context from date - window up to, not including, date + window
IterEntryDates(context, date, window) ==
    SelectSeq(context, LAMBDA target :
        /\ Ordinal(target.date) >= Ordinal(date) - window
        /\ Ordinal(target.date) < Ordinal(date) + window)

\* extract.mark_duplicate_entries(entries, existing, window, comparator)
MarkDuplicateEntries(es, context, window, max_date_delta, epsilon) ==
    [k \in 1..Len(es) |->
        LET targets == IterEntryDates(context, es[k].date, window)
        IN  IF \E j \in 1..Len(targets) : Comparator(max_date_delta, epsilon, es[k], targets[j])
            THEN [es[k] EXCEPT !.meta.duplicate = TRUE]
            ELSE es[k]]

\* deduplicate(entries, existing)
CallDeduplicate ==
    /\ dedup_pc = "ready"
    /\ dedup_entries' = MarkDuplicateEntries(dedup_entries, dedup_existing, dedup_window,
                                             dedup_max_date_delta, dedup_epsilon)
    /\ dedup_pc' = "done"
    /\ UNCHANGED <<dedup_window, dedup_max_date_delta, dedup_epsilon, dedup_existing>>
    /\ UNCHANGED <<cat_vars, pdf_vars, csv_vars, amt_vars>>

\* a transaction as extract and finalize leave it: the posting on the bank
\* account and, when categorized, the balancing posting
DedupTransaction(day, number, other_account) ==
    [meta |-> [duplicate |-> FALSE],
     date |-> [year |-> 2024, month |-> 1, day |-> day],
     postings |->
        <<Posting(account_name, <<Amount(DecimalValue(number, 2), self_currency)>>)>>
        \o (IF other_account = "" THEN <<>>
            ELSE <<Posting(other_account,
                           <<Amount(DecimalValue(0 - number, 2), self_currency)>>)>>)]

NewTransactions ==
    {DedupTransaction(d, n, a) : d \in {11, 14}, n \in {50002, 14}, a \in {"", "Expenses:Food"}}
ExistingTransactions ==
    {DedupTransaction(d, n, a) : d \in {10, 11}, n \in {50000, 10}, a \in {"", "Expenses:Rent"}}

\* the ledger's entries are sorted by date
SortedByDate(es) ==
    \A k \in 1..(Len(es) - 1) : Ordinal(es[k].date) <= Ordinal(es[k + 1].date)

InitDedup ==
    /\ dedup_window \in {1, 3}
    /\ dedup_max_date_delta \in {0, 2}
    /\ dedup_epsilon \in {DecimalValue(5, 2), DecimalValue(1, 2)}
    /\ dedup_entries \in SeqsUpTo(NewTransactions, MaxNew)
    /\ dedup_existing \in {es \in SeqsUpTo(ExistingTransactions, MaxExisting) : SortedByDate(es)}
    /\ dedup_pc = "ready"
    /\ CatIdle
    /\ PdfIdle
    /\ CsvIdle
    /\ AmtIdle

NextDedup == CallDeduplicate

SpecDedup == InitDedup /\ [][NextDedup]_vars

\* the amount of a transaction: the number of its posting on the bank account
FirstNumber(entry) == entry.postings[1].units[1].number

\* |x - y| <= epsilon
DiffersAtMost(x, y, epsilon) ==
    Abs(x.num * (10 ^ y.exp) - y.num * (10 ^ x.exp)) * (10 ^ epsilon.exp)
        <= epsilon.num * (10 ^ (x.exp + y.exp))

\* C14: after deduplicate, a new entry is marked when some existing entry on
\* the same account lies within the window, at most max_date_delta days away
\* and with an amount that differs by at most epsilon; and it is not marked
\* when every existing entry is more than max_date_delta days away (existing
\* 2024-01-10 / 500.00 and new 2024-01-11 / 500.02: marked with epsilon 0.05
\* and max_date_delta 2, not marked with max_date_delta 0).
C14_MarkedWithinDeltaAndEpsilon ==
    dedup_pc = "done" =>
        \A k \in 1..Len(dedup_entries) :
            LET entry == dedup_entries[k]
                near(target) ==
                    /\ target.postings[1].account = entry.postings[1].account
                    /\ DateDelta(entry.date, target.date) < dedup_window
                    /\ DateDelta(entry.date, target.date) <= dedup_max_date_delta
                    /\ DiffersAtMost(FirstNumber(entry), FirstNumber(target), dedup_epsilon)
            IN  /\ (\E j \in 1..Len(dedup_existing) : near(dedup_existing[j]))
                      => entry.meta.duplicate
                /\ (\A j \in 1..Len(dedup_existing) :
                        DateDelta(entry.date, dedup_existing[j].date) > dedup_max_date_delta)
                      => ~entry.meta.duplicate

\* the two examples of the specification: existing 2024-01-10 / 500.00, new
\* 2024-01-11 / 500.02, epsilon 0.05, window 3 days: the new entry is marked
\* with max_date_delta 2 and not with max_date_delta 0
ExamplesOfMarking ==
    ( /\ dedup_pc = "done"
      /\ dedup_epsilon = DecimalValue(5, 2) /\ dedup_window = 3
      /\ dedup_existing = <<DedupTransaction(10, 50000, "")>>
      /\ Len(dedup_entries) = 1
      /\ [dedup_entries[1] EXCEPT !.meta.duplicate = FALSE] = DedupTransaction(11, 50002, "") )
    => (dedup_entries[1].meta.duplicate <=> dedup_max_date_delta = 2)

====
